---- MODULE Spec2Model ----
(***************************************************************************)
(* MT5Connector (src/utils/mt5_connector.py): a configuration-driven       *)
(* lifecycle wrapper around the MetaTrader5 client library.                *)
(*                                                                         *)
(* The connector's own state is self.config and self.path.  The connection *)
(* itself is process-wide state of the external client (mt5).  Every       *)
(* method is modelled as an operator that returns what the method returns  *)
(* (or the exception it lets escape) together with the ordered list of     *)
(* calls it makes on the external client; the actions apply those calls    *)
(* to the client's state.                                                  *)
(*                                                                         *)
(* Environment: configuration files are well-formed INI files of the       *)
(* documented layout (named sections, no DEFAULT section, no value         *)
(* interpolation).  mt5.initialize and mt5.shutdown return normally;       *)
(* mt5.login may return True, return False or raise; mt5.last_error may    *)
(* return a code or raise.  The client accepts a login only on an          *)
(* initialized connection, and a login never changes the connection.       *)
(***************************************************************************)
EXTENDS Integers, Sequences, FiniteSets, TLC

VARIABLES
    file,              \* what is on disk at config_path: [exists, content]
    terminal_section,  \* the constructor's terminal_section argument
    config,            \* self.config: section name -> (key -> value)
    path,              \* self.path (None when unset)
    mt5,               \* the external client: [conn, auth]
    scope,             \* the caller's position: "outside" or "body" of a with block
    last,              \* the last operation: what it returned and the calls it made
    attempts,          \* with statements started
    entered,           \* with statements whose __enter__ returned
    exits,             \* with blocks left (body finished or raised)
    exitShutdowns,     \* mt5.shutdown calls made by __exit__
    ops                \* operations performed so far

vars == <<file, terminal_section, config, path, mt5, scope, last,
          attempts, entered, exits, exitShutdowns, ops>>

(* ------------------------------ bounds -------------------------------- *)

\* operations performed on one connector
MaxOps == 4

(* ------------------------- values and inputs -------------------------- *)

\* Python's None, as self.path and as the path argument of mt5.initialize
None == "<None>"

TERMINAL == "TERMINAL"
ACCOUNT == "ACCOUNT"
MISSING == "MISSING"

SectionNames == {TERMINAL, ACCOUNT, MISSING}

AccountKeys == {"login", "password", "server"}

TerminalExe == "C:/MT5/terminal64.exe"

\* login values as they stand in the store: strings, here sequences of characters
LoginValues ==
    { <<"1", "2", "3">>, <<"-", "7">>, <<"1", "_", "0">>,
      <<"a", "b", "c">>, <<"1", "2", "x">>, <<>> }

\* a terminal section: no path key, an empty path, or a path
TerminalSections ==
    { [k \in {} |-> ""], [k \in {"path"} |-> ""], [k \in {"path"} |-> TerminalExe] }

\* an account section holding the keys K
AccountSection(K, l) ==
    [k \in K |-> IF k = "login" THEN l ELSE IF k = "password" THEN "p" ELSE "s"]

AccountSections ==
    UNION { { AccountSection(K, l) : l \in LoginValues } : K \in SUBSET AccountKeys }

\* the store a file parses to: each of the two sections present or not
Stores ==
    { [s \in {} |-> [k \in {} |-> ""]] }
    \cup { [s \in {TERMINAL} |-> t] : t \in TerminalSections }
    \cup { [s \in {ACCOUNT} |-> a] : a \in AccountSections }
    \cup UNION { { [s \in {TERMINAL, ACCOUNT} |-> IF s = TERMINAL THEN t ELSE a]
                   : a \in AccountSections } : t \in TerminalSections }

EmptyStore == [s \in {} |-> [k \in {} |-> ""]]

Files ==
    { [exists |-> FALSE, content |-> EmptyStore] }
    \cup { [exists |-> TRUE, content |-> c] : c \in Stores }

(* --------------------------- configparser ----------------------------- *)

has_section(cfg, section) == section \in DOMAIN cfg

\* ConfigParser.get(section, option, fallback=...): with a fallback it never raises
get(cfg, section, option, fallback) ==
    IF section \notin DOMAIN cfg THEN fallback
    ELSE IF option \in DOMAIN cfg[section] THEN cfg[section][option]
    ELSE fallback

\* SectionProxy.__getitem__: [exc |-> "KeyError"] when the key is missing
getitem(creds, key) ==
    IF key \in DOMAIN creds THEN [exc |-> "None", val |-> creds[key]]
    ELSE [exc |-> "KeyError", val |-> None]

(* ------------------------------- int() -------------------------------- *)

Digits == {"0", "1", "2", "3", "4", "5", "6", "7", "8", "9"}

DigitValue(c) ==
    CASE c = "0" -> 0 [] c = "1" -> 1 [] c = "2" -> 2 [] c = "3" -> 3 [] c = "4" -> 4
      [] c = "5" -> 5 [] c = "6" -> 6 [] c = "7" -> 7 [] c = "8" -> 8 [] c = "9" -> 9

RECURSIVE Strip(_)
Strip(s) ==
    IF s = <<>> THEN s
    ELSE IF Head(s) = " " THEN Strip(Tail(s))
    ELSE IF s[Len(s)] = " " THEN Strip(SubSeq(s, 1, Len(s) - 1))
    ELSE s

\* digits, single underscores allowed between digits
WellFormedDigits(s) ==
    /\ s # <<>>
    /\ \A i \in 1..Len(s) : s[i] \in Digits \cup {"_"}
    /\ s[1] # "_" /\ s[Len(s)] # "_"
    /\ \A i \in 1..(Len(s) - 1) : ~(s[i] = "_" /\ s[i + 1] = "_")

RECURSIVE Decimal(_, _)
Decimal(s, acc) ==
    IF s = <<>> THEN acc
    ELSE IF Head(s) = "_" THEN Decimal(Tail(s), acc)
    ELSE Decimal(Tail(s), 10 * acc + DigitValue(Head(s)))

\* int() that drops the sign
int_unsigned(str) ==
    LET t == Strip(str)
        signed == t # <<>> /\ Head(t) \in {"+", "-"}
        body == IF signed THEN Tail(t) ELSE t
    IN  IF ~WellFormedDigits(body) THEN [ok |-> FALSE, val |-> 0]
        ELSE [ok |-> TRUE, val |-> Decimal(body, 0)]

\* int() that yields 0 instead of raising ValueError
int_lenient(str) ==
    LET t == Strip(str)
        signed == t # <<>> /\ Head(t) \in {"+", "-"}
        body == IF signed THEN Tail(t) ELSE t
    IN  IF ~WellFormedDigits(body) THEN [ok |-> TRUE, val |-> 0]
        ELSE [ok |-> TRUE,
              val |-> IF signed /\ Head(t) = "-" THEN 0 - Decimal(body, 0)
                      ELSE Decimal(body, 0)]

\* int(str): [ok |-> TRUE, val |-> n], or [ok |-> FALSE, val |-> 0] for ValueError
int(str) ==
    LET t == Strip(str)
        signed == t # <<>> /\ Head(t) \in {"+", "-"}
        body == IF signed THEN Tail(t) ELSE t
    IN  IF ~WellFormedDigits(body) THEN [ok |-> FALSE, val |-> 0]
        ELSE [ok |-> TRUE,
              val |-> IF signed /\ Head(t) = "-" THEN 0 - Decimal(body, 0)
                      ELSE Decimal(body, 0)]

(* ----------------------- the external client -------------------------- *)

\* what the client answers to the calls of one operation
Envs ==
    [init : BOOLEAN, login : {"True", "False", "raise"}, last_error : {"code", "raise"}]

Call(fn, args, out) == [fn |-> fn, args |-> args, out |-> out]

\* the effect of one call on the client's connection
ApplyCall(m, c) ==
    CASE c.fn = "initialize" ->
            IF c.out = "True" THEN [conn |-> "Initialized", auth |-> "none"] ELSE m
      [] c.fn = "login" ->
            IF m.conn # "Initialized" \/ c.out = "raise" THEN m
            ELSE [m EXCEPT !.auth = IF c.out = "True" THEN "LoggedIn" ELSE "LoginFailed"]
      [] c.fn = "shutdown" -> [conn |-> "Shutdown", auth |-> "none"]
      [] c.fn = "last_error" -> m

RECURSIVE ApplyCalls(_, _)
ApplyCalls(m, calls) ==
    IF calls = <<>> THEN m ELSE ApplyCalls(ApplyCall(m, Head(calls)), Tail(calls))

\* the calls of one operation made on function fn
CallsTo(calls, fn) == SelectSeq(calls, LAMBDA c : c.fn = fn)

(* ---------------------------- MT5Connector ---------------------------- *)

Return(result, calls, diag) == [result |-> result, calls |-> calls, diag |-> diag]

\* _load_terminal_config that keeps an empty path
load_keeps_empty_path(f, section) ==
    IF ~f.exists
    THEN [config |-> EmptyStore, path |-> None, diag |-> "file not found"]
    ELSE LET cfg == f.content IN
         IF ~has_section(cfg, section)
         THEN [config |-> cfg, path |-> None, diag |-> "section not found"]
         ELSE [config |-> cfg, path |-> get(cfg, section, "path", None), diag |-> "loaded"]

_load_terminal_config(f, section) ==
    IF ~f.exists
    THEN [config |-> EmptyStore, path |-> None, diag |-> "file not found"]
    ELSE LET cfg == f.content IN
         IF ~has_section(cfg, section)
         THEN [config |-> cfg, path |-> None, diag |-> "section not found"]
         ELSE LET p == get(cfg, section, "path", None) IN
              [config |-> cfg,
               path |-> IF p = "" THEN None ELSE p,
               diag |-> "loaded"]

initialize_terminal(p, env) ==
    LET init == Call("initialize", <<p>>, IF env.init THEN "True" ELSE "False")
        err == Call("last_error", <<>>, env.last_error)
    IN  IF ~env.init
        THEN IF env.last_error = "raise"
             THEN Return("ClientError", <<init, err>>, "none")
             ELSE Return("False", <<init, err>>, "initialize failed")
        ELSE Return("True", <<init>>, "initialized")

\* the try block reading password and server with a default instead of by key
login_try_defaults(creds, env) ==
    LET l == getitem(creds, "login")
        n == int(l.val)
        pw == IF "password" \in DOMAIN creds THEN creds["password"] ELSE ""
        sv == IF "server" \in DOMAIN creds THEN creds["server"] ELSE ""
        login == Call("login", <<n.val, pw, sv>>, env.login)
        err == Call("last_error", <<>>, env.last_error)
    IN  IF l.exc # "None" THEN [exc |-> "KeyError", result |-> "None", calls |-> <<>>]
        ELSE IF ~n.ok THEN [exc |-> "ValueError", result |-> "None", calls |-> <<>>]
        ELSE IF env.login = "raise"
             THEN [exc |-> "ClientError", result |-> "None", calls |-> <<login>>]
        ELSE IF env.login = "False"
             THEN IF env.last_error = "raise"
                  THEN [exc |-> "ClientError", result |-> "None", calls |-> <<login, err>>]
                  ELSE [exc |-> "None", result |-> "False", calls |-> <<login, err>>]
        ELSE [exc |-> "None", result |-> "True", calls |-> <<login>>]

\* the try block of login_to_account: exc is the exception it ends with
login_try(creds, env) ==
    LET l == getitem(creds, "login")
        n == int(l.val)
        pw == getitem(creds, "password")
        sv == getitem(creds, "server")
        login == Call("login", <<n.val, pw.val, sv.val>>, env.login)
        err == Call("last_error", <<>>, env.last_error)
    IN  IF l.exc # "None" THEN [exc |-> "KeyError", result |-> "None", calls |-> <<>>]
        ELSE IF ~n.ok THEN [exc |-> "ValueError", result |-> "None", calls |-> <<>>]
        ELSE IF pw.exc # "None" THEN [exc |-> "KeyError", result |-> "None", calls |-> <<>>]
        ELSE IF sv.exc # "None" THEN [exc |-> "KeyError", result |-> "None", calls |-> <<>>]
        ELSE IF env.login = "raise"
             THEN [exc |-> "ClientError", result |-> "None", calls |-> <<login>>]
        ELSE IF env.login = "False"
             THEN IF env.last_error = "raise"
                  THEN [exc |-> "ClientError", result |-> "None", calls |-> <<login, err>>]
                  ELSE [exc |-> "None", result |-> "False", calls |-> <<login, err>>]
        ELSE [exc |-> "None", result |-> "True", calls |-> <<login>>]

\* login_to_account with only the KeyError handler: other exceptions escape
login_catches_only_KeyError(cfg, account_section, env) ==
    IF ~has_section(cfg, account_section)
    THEN Return("False", <<>>, "section not found")
    ELSE LET t == login_try(cfg[account_section], env) IN
         IF t.exc = "KeyError" THEN Return("False", t.calls, "missing key")
         ELSE IF t.exc # "None" THEN Return(t.exc, t.calls, "none")
         ELSE Return(t.result, t.calls,
                     IF t.result = "True" THEN "logged in" ELSE "login failed")

\* login_to_account that releases the connection when the client rejects the login
login_shuts_down_on_reject(cfg, account_section, env) ==
    IF ~has_section(cfg, account_section)
    THEN Return("False", <<>>, "section not found")
    ELSE LET t == login_try(cfg[account_section], env) IN
         IF t.exc = "KeyError" THEN Return("False", t.calls, "missing key")
         ELSE IF t.exc # "None" THEN Return("False", t.calls, "unexpected " \o t.exc)
         ELSE IF t.result = "False"
              THEN Return("False", t.calls \o <<Call("shutdown", <<>>, "None")>>, "login failed")
         ELSE Return(t.result, t.calls, "logged in")

login_to_account(cfg, account_section, env) ==
    IF ~has_section(cfg, account_section)
    THEN Return("False", <<>>, "section not found")
    ELSE LET t == login_try(cfg[account_section], env) IN
         IF t.exc = "KeyError" THEN Return("False", t.calls, "missing key")
         ELSE IF t.exc # "None" THEN Return("False", t.calls, "unexpected " \o t.exc)
         ELSE Return(t.result, t.calls,
                     IF t.result = "True" THEN "logged in" ELSE "login failed")

\* shutdown_terminal that does not reach the client
shutdown_skipped == Return("None", <<>>, "shut down")

shutdown_terminal == Return("None", <<Call("shutdown", <<>>, "None")>>, "shut down")

\* __enter__ that returns the connector whether or not initialize succeeded
enter_ignores_failure(p, env) ==
    LET r == initialize_terminal(p, env) IN
    IF r.result \in {"True", "False"} THEN Return("self", r.calls, r.diag) ELSE r

__enter__(p, env) ==
    LET r == initialize_terminal(p, env) IN
    IF r.result = "True" THEN Return("self", r.calls, r.diag)
    ELSE IF r.result = "False" THEN Return("ConnectionError", r.calls, r.diag)
    ELSE r

\* __exit__ that leaves the connection open
exit_without_shutdown == Return("None", <<>>, "none")

__exit__ == shutdown_terminal

(* ------------------------------ actions ------------------------------- *)

\* the client accepts a login only on an initialized connection
Answers(env) == env.login = "True" => mt5.conn = "Initialized"

Did(op, arg, r) ==
    /\ last' = [op |-> op, arg |-> arg, result |-> r.result, calls |-> r.calls,
                diag |-> r.diag]
    /\ mt5' = ApplyCalls(mt5, r.calls)
    /\ ops' = ops + 1
    /\ UNCHANGED <<file, terminal_section, config, path>>

InitializeTerminal ==
    /\ ops < MaxOps
    /\ \E env \in Envs : Did("initialize_terminal", None, initialize_terminal(path, env))
    /\ UNCHANGED <<scope, attempts, entered, exits, exitShutdowns>>

LoginToAccount ==
    /\ ops < MaxOps
    /\ \E s \in SectionNames, env \in Envs :
          /\ Answers(env)
          /\ Did("login_to_account", s, login_to_account(config, s, env))
    /\ UNCHANGED <<scope, attempts, entered, exits, exitShutdowns>>

ShutdownTerminal ==
    /\ ops < MaxOps
    /\ Did("shutdown_terminal", None, shutdown_terminal)
    /\ UNCHANGED <<scope, attempts, entered, exits, exitShutdowns>>

\* with connector: __enter__ runs; the block is entered only if it returns, and an
\* exception it raises leaves the with statement without running __exit__
EnterScope ==
    /\ ops < MaxOps
    /\ scope = "outside"
    /\ \E env \in Envs :
          LET r == __enter__(path, env) IN
          /\ Did("__enter__", None, r)
          /\ attempts' = attempts + 1
          /\ IF r.result = "self"
             THEN scope' = "body" /\ entered' = entered + 1
             ELSE scope' = "outside" /\ entered' = entered
    /\ UNCHANGED <<exits, exitShutdowns>>

\* the block is left, its body finished ("normal") or raised ("exception"): __exit__ runs
LeaveScope ==
    /\ ops < MaxOps
    /\ scope = "body"
    /\ \E how \in {"normal", "exception"} :
          /\ Did("__exit__", how, __exit__)
          /\ exits' = exits + 1
          /\ exitShutdowns' = exitShutdowns + Len(CallsTo(__exit__.calls, "shutdown"))
          /\ scope' = "outside"
    /\ UNCHANGED <<attempts, entered>>

Init ==
    \E f \in Files, ts \in SectionNames :
        LET r == _load_terminal_config(f, ts) IN
        /\ file = f
        /\ terminal_section = ts
        /\ config = r.config
        /\ path = r.path
        /\ mt5 = [conn |-> "Uninitialized", auth |-> "none"]
        /\ scope = "outside"
        /\ last = [op |-> "__init__", arg |-> ts, result |-> "None", calls |-> <<>>,
                   diag |-> r.diag]
        /\ attempts = 0 /\ entered = 0 /\ exits = 0 /\ exitShutdowns = 0
        /\ ops = 0

Next ==
    \/ InitializeTerminal
    \/ LoginToAccount
    \/ ShutdownTerminal
    \/ EnterScope
    \/ LeaveScope

Spec == Init /\ [][Next]_vars

(* ------------------------------ claims -------------------------------- *)

IsLogin == last.op = "login_to_account"

LoginCalls == CallsTo(last.calls, "login")

InitCalls == CallsTo(last.calls, "initialize")

\* the store has the section with login, password and server
Complete(cfg, s) == s \in DOMAIN cfg /\ AccountKeys \subseteq DOMAIN cfg[s]

\* the integers the integer strings of LoginValues denote
Denotes(l) ==
    CASE l = <<"1", "2", "3">> -> 123
      [] l = <<"-", "7">> -> 0 - 7
      [] l = <<"1", "_", "0">> -> 10

IntegerStrings == { <<"1", "2", "3">>, <<"-", "7">>, <<"1", "_", "0">> }

\* __enter__ ran and mt5.initialize returned failure
FailedEntry == last.op = "__enter__" /\ InitCalls # <<>> /\ InitCalls[1].out = "False"

\* C1 as stated: when initialize fails during scope entry, entering raises a
\* connection error and the attempt is still matched by a shutdown call made on exit
\* (stated for the case in which last_error returns its code).
C1_FailedEntryStillShutsDown ==
    (FailedEntry /\ last.calls[Len(last.calls)].out = "code") =>
        /\ last.result = "ConnectionError"
        /\ exitShutdowns = attempts

\* C1 amended: when initialize fails during scope entry, entering raises (a
\* ConnectionError, or the exception of last_error if that call raises), the block is
\* not entered, __exit__ is not run and no shutdown call is made for that attempt.
C1_FailedEntryRaisesWithoutExit ==
    FailedEntry =>
        /\ last.result \in {"ConnectionError", "ClientError"}
        /\ last.calls[Len(last.calls)].out = "code" => last.result = "ConnectionError"
        /\ scope = "outside"
        /\ CallsTo(last.calls, "shutdown") = <<>>
        /\ exitShutdowns < attempts

C1_Witness ==
    /\ FailedEntry
    /\ last.result = "ConnectionError"
    /\ exits = 1
    /\ attempts = 2

\* C2: every scope whose entry succeeded makes exactly one shutdown call when it is
\* left, normally or by an exception; the shutdown calls made by scope exits equal the
\* number of exits, which is the number of successful entries that have been left.
C2_ExactlyOnceRelease ==
    /\ exitShutdowns = exits
    /\ entered = exits + (IF scope = "body" THEN 1 ELSE 0)
    /\ last.op = "__exit__" =>
          /\ Len(CallsTo(last.calls, "shutdown")) = 1
          /\ mt5.conn = "Shutdown"

C2_Witness ==
    /\ last.op = "__exit__"
    /\ last.arg = "exception"
    /\ exits = 2
    /\ exitShutdowns = 2

\* C3: when the section is absent, or lacks one of login, password, server,
\* login_to_account returns False and calls the client's login zero times.
C3_IncompleteSectionNoLogin ==
    (IsLogin /\ ~Complete(config, last.arg)) =>
        /\ last.result = "False"
        /\ LoginCalls = <<>>

C3_Witness ==
    /\ IsLogin
    /\ last.arg \in DOMAIN config
    /\ DOMAIN config[last.arg] = {"login", "password"}
    /\ config[last.arg]["login"] \in IntegerStrings
    /\ last.result = "False"

ResolvedPath(f, s) ==
    IF ~f.exists THEN None
    ELSE IF s \notin DOMAIN f.content THEN None
    ELSE IF "path" \notin DOMAIN f.content[s] THEN None
    ELSE IF f.content[s]["path"] = "" THEN None
    ELSE f.content[s]["path"]

C6_NonNumericLogin ==
    (IsLogin /\ Complete(config, last.arg)
            /\ config[last.arg]["login"] \notin IntegerStrings) =>
        /\ last.result = "False"
        /\ last.calls = <<>>
        /\ last.diag = "unexpected ValueError"

C6_Witness ==
    /\ IsLogin
    /\ Complete(config, last.arg)
    /\ config[last.arg]["login"] = <<"1", "2", "x">>
    /\ last.result = "False"

\* C7: login_to_account always returns a boolean, and returns False whenever an
\* exception occurred inside it (a missing key, a bad login value, login or
\* last_error raising).
C7_LoginNeverRaises ==
    IsLogin =>
        /\ last.result \in {"True", "False"}
        /\ (\E i \in 1..Len(last.calls) : last.calls[i].out = "raise")
              => last.result = "False"
        /\ last.diag \in {"missing key", "unexpected ValueError", "unexpected ClientError"}
              => last.result = "False"

C7_Witness ==
    /\ IsLogin
    /\ Len(last.calls) = 2
    /\ last.calls[2].fn = "last_error"
    /\ last.calls[2].out = "raise"
    /\ last.result = "False"

\* C8 as stated: shutdown_terminal always issues the external shutdown, and once the
\* connection is Shutdown no operation moves it back to Initialized.
C8_ShutdownIsTerminal ==
    [][ /\ last'.op = "shutdown_terminal" =>
              Len(CallsTo(last'.calls, "shutdown")) = 1
        /\ mt5.conn = "Shutdown" => mt5'.conn # "Initialized" ]_vars

\* C8 amended: shutdown_terminal can be taken in every state and always issues the
\* external shutdown, leaving the connection Shutdown; a Shutdown connection is left
\* only by initialize_terminal or scope entry whose mt5.initialize succeeds (the
\* connection is then Initialized again), never by login_to_account.
C8_ShutdownUntilReinitialized ==
    [][ /\ ops < MaxOps => ENABLED ShutdownTerminal
        /\ last'.op = "shutdown_terminal" =>
              /\ Len(CallsTo(last'.calls, "shutdown")) = 1
              /\ mt5'.conn = "Shutdown"
        /\ (mt5.conn = "Shutdown" /\ mt5'.conn # "Shutdown") =>
              /\ last'.op \in {"initialize_terminal", "__enter__"}
              /\ CallsTo(last'.calls, "initialize")[1].out = "True"
              /\ mt5'.conn = "Initialized"
        /\ (mt5.conn = "Shutdown" /\ last'.op = "login_to_account") => mt5' = mt5 ]_vars

C8_Witness ==
    /\ last.op = "initialize_terminal"
    /\ last.result = "True"
    /\ exitShutdowns = 1
    /\ mt5.conn = "Initialized"

\* C9 as stated: the client's login is invoked only while the connection is
\* Initialized.  (A login call does not change the connection, so the connection
\* after the call is the connection at the call.)
C9_LoginOnlyWhileInitialized ==
    (IsLogin /\ LoginCalls # <<>>) => mt5.conn = "Initialized"

\* C9 amended: the ordering is enforced at scope entry only: the body of a with block
\* starts only after mt5.initialize succeeded, so a login made first thing in the body
\* finds the connection Initialized; login_to_account itself does not look at the
\* connection and invokes the client's login in any state.
C9_BodyStartsInitialized ==
    [][ /\ (scope = "outside" /\ scope' = "body") =>
              /\ last'.op = "__enter__"
              /\ mt5'.conn = "Initialized"
        /\ (last.op = "__enter__" /\ scope = "body" /\ last'.op = "login_to_account") =>
              mt5.conn = "Initialized" ]_vars

C9_Witness ==
    /\ IsLogin
    /\ LoginCalls # <<>>
    /\ scope = "body"
    /\ ops = 2
    /\ mt5 = [conn |-> "Initialized", auth |-> "LoggedIn"]

\* C10: a login_to_account that returns False leaves the path and the store as they
\* were, calls neither initialize nor shutdown, calls login at most once, and leaves
\* an Initialized connection Initialized.
C10_FailedLoginLeavesNoPartialState ==
    [][ (last'.op = "login_to_account" /\ last'.result = "False") =>
            /\ path' = path
            /\ config' = config
            /\ file' = file
            /\ CallsTo(last'.calls, "initialize") = <<>>
            /\ CallsTo(last'.calls, "shutdown") = <<>>
            /\ Len(CallsTo(last'.calls, "login")) <= 1
            /\ mt5.conn = "Initialized" => mt5'.conn = "Initialized"
            /\ mt5'.conn = mt5.conn ]_vars

C10_Witness ==
    /\ IsLogin
    /\ last.result = "False"
    /\ LoginCalls # <<>>
    /\ mt5 = [conn |-> "Initialized", auth |-> "LoginFailed"]

====
